---- MODULE Spec2Model ----
(***************************************************************************)
(* Frame-presentation engine of rust_engine: Renderer<B> over gfx-hal       *)
(* (src/graphics/renderer.rs; src/renderer.rs and the RedrawRequested       *)
(* handler of src/main.rs are copies of the same frame loop).               *)
(*                                                                         *)
(* The CPU thread runs render() step by step (pc); the GPU retires          *)
(* submitted batches asynchronously (GpuRetire).  Every gfx-hal call whose  *)
(* result the code inspects is an input drawn from the outcomes the         *)
(* gfx-hal signature allows:                                                *)
(*   wait_for_fence   : Result<bool, WaitError>   Ok(true) | Ok(false) | Err *)
(*   reset_fence      : Result<(), OutOfMemory>                             *)
(*   configure_swapchain : Result<(), SwapchainError>                       *)
(*   acquire_image    : Result<(image, Option<Suboptimal>), AcquireError>   *)
(*   create_framebuffer : Result<Framebuffer, OutOfMemory>                  *)
(*   present          : Result<Option<Suboptimal>, PresentError>            *)
(***************************************************************************)
EXTENDS Integers, Sequences, FiniteSets, TLC

\* ------------------------------------------------------------------ bounds

\* Largest width/height a window or a surface capability takes.
MaxDim == 2

\* Most batches the GPU may hold unretired before a fence wait has to see one retire.
MaxInFlight == 2

\* Consecutive render() calls with a failed acquire or present that are told apart.
MaxSoftFailures == 2

\* Most queue families an adapter lists.
MaxFamilies == 2

\* Most formats a surface lists as supported.
MaxFormats == 2

\* Most resizes of one RenderState that are told apart.
MaxResizes == 2

\* ------------------------------------------------------------- value sets

Dim == 0..MaxDim

Extent2D == [width : Dim, height : Dim]

\* Physical sizes the window reports: zero (minimised), smallest and largest,
\* widths and heights differing.
WindowSizes == {e \in Extent2D : e.width \in {0, 1, MaxDim} /\ e.height \in {0, MaxDim}}

NoExtent == [width |-> -1, height |-> -1]

NoSwapchain == [extent |-> NoExtent, image_count |-> 0]

\* Surface capabilities the backend may report (SurfaceCapabilities):
\* current_extent is NoExtent when the surface leaves the size to the swapchain.
CapsSet ==
    { [current_extent |-> c, min_extent |-> [width |-> 1, height |-> 1],
       max_extent |-> [width |-> m, height |-> m], image_count |-> r] :
         c \in {NoExtent, [width |-> 1, height |-> 1]},
         m \in {1, MaxDim},
         r \in {<<1, 2>>, <<2, 3>>, <<4, 5>>} }

\* No capabilities queried: outside the swapchain check of render().
NoCaps ==
    [current_extent |-> NoExtent, min_extent |-> NoExtent, max_extent |-> NoExtent,
     image_count |-> <<0, 0>>]

\* No wgpu swap chain: no RenderState has been built.
NoSwapChain == [serial |-> 0, width |-> -1, height |-> -1]

\* pso::Rect of the viewport when none is described.
NoViewport == [x |-> -1, y |-> -1, w |-> -1, h |-> -1]

\* Widths and heights around the ends of i16 and u16, and one far beyond.
WideDim == {0, 1, 2, 32766, 32767, 32768, 32769, 65535, 65536, 65537, 2147483647}

\* gfx_hal::format::Format, as far as the selection tells formats apart.
Formats == {"Rgba8Unorm", "Bgra8Unorm", "Bgra8Srgb", "Rgba8Srgb"}

\* Sequences over S of length at most n.
SeqUpTo(S, n) == UNION {[1..k -> S] : k \in 0..n}

\* Option<Vec<Format>> returned by Surface::supported_formats.
FormatQueries ==
    {[some |-> FALSE, formats |-> <<>>]} \cup
    {[some |-> TRUE, formats |-> f] : f \in SeqUpTo(Formats, MaxFormats)}

\* adapter.queue_families: what the selection asks of each family.
QueueFamilyLists == SeqUpTo([present : BOOLEAN, graphics : BOOLEAN], MaxFamilies)

ObjectNames ==
    {"rendering_complete_semaphore", "submission_complete_fence", "pipeline",
     "pipeline_layout", "render_pass", "command_pool", "surface", "instance"}

VARIABLES
    pc,                            \* position of the CPU thread in render()
    should_configure_swapchain,    \* Renderer.should_configure_swapchain
    surface_extent,                \* Renderer.surface_extent
    submission_complete_fence,     \* TRUE: signaled
    rendering_complete_semaphore,  \* signals pending on the semaphore
    command_buffer,                \* "initial" | "executable" | "pending" | "invalid"
    gpu_queue,                     \* batches submitted and not retired
    swapchain,                     \* configuration applied to the surface
    surface_image,                 \* TRUE: an acquired image is held
    framebuffer,                   \* TRUE: the transient framebuffer exists
    objects,                       \* the objects of Resources: "live" | "destroyed"
    ops,                           \* calls of the current (or last finished) render()
    prev_ops,                      \* calls of the render() before it
    resized,                       \* update_dimensions since the last render()
    resized_between,               \* update_dimensions between prev_ops and ops
    pending_size,                  \* physical_size given and not yet seen by a swapchain check
    last_caps,                     \* `caps` of the swapchain check, while in scope
    teardown,                      \* destroy calls made by drop(), in order
    viewport,                      \* `viewport.rect` of the recording, while in scope
    soft_failures,                 \* render() calls in a row that failed at acquire or present
    queue_families,                \* adapter.queue_families
    supported_formats,             \* result of surface.supported_formats
    queue_family,                  \* index of the family new() opened the device on
    color_format,                  \* Resources.color_format
    copy_in,                       \* flag, extent and call outcomes given to each copy of the frame loop
    copy_out,                      \* what each copy did with copy_in
    size,                          \* RenderState.size
    sc_desc,                       \* RenderState.sc_desc, its width and height
    swap_chain                     \* RenderState.swap_chain: serial and the descriptor it was made from

vars ==
    <<pc, should_configure_swapchain, surface_extent, submission_complete_fence,
      rendering_complete_semaphore, command_buffer, gpu_queue, swapchain,
      surface_image, framebuffer, objects, ops, prev_ops, resized, resized_between,
      pending_size, last_caps, teardown, viewport, soft_failures, queue_families,
      supported_formats, queue_family, color_format, copy_in, copy_out, size,
      sc_desc, swap_chain>>

renderer_vars == <<should_configure_swapchain, surface_extent>>

gpu_vars ==
    <<submission_complete_fence, rendering_complete_semaphore, command_buffer,
      gpu_queue>>

surface_vars == <<swapchain, surface_image>>

log_vars == <<prev_ops, resized, resized_between>>

\* What only update_dimensions, the swapchain check and drop() write.
local_vars == <<pending_size, last_caps, teardown>>

\* What only the recording and the end of a frame write.
frame_vars == <<viewport, soft_failures>>

\* Inputs and results of Renderer::new.
construction_vars == <<queue_families, supported_formats, queue_family, color_format>>

\* What only the comparison of the three copies of the frame loop writes.
copies_vars == <<copy_in, copy_out>>

\* The fields of the wgpu RenderState.
render_state_vars == <<size, sc_desc, swap_chain>>

\* What the gfx-hal Renderer of src/graphics/renderer.rs never touches.
outside_vars == <<copies_vars, render_state_vars>>

\* ---------------------------------------------------------------- helpers

Min(a, b) == IF a < b THEN a ELSE b

Max(a, b) == IF a > b THEN a ELSE b

Names(log) == [i \in DOMAIN log |-> log[i][1]]

Count(log, name) == Cardinality({i \in DOMAIN log : log[i][1] = name})

Has(log, name) == \E i \in DOMAIN log : log[i][1] = name

Result(log, name) ==
    IF Has(log, name)
    THEN log[CHOOSE i \in DOMAIN log : log[i][1] = name][2]
    ELSE "none"

IsPrefix(s, t) == Len(s) <= Len(t) /\ SubSeq(t, 1, Len(s)) = s

\* Mutant: the requested extent is used as it is when the surface has no current extent.
ClampedExtentUnclamped(caps, requested) ==
    IF caps.current_extent # NoExtent
    THEN caps.current_extent
    ELSE requested

\* Mutant: the requested extent is raised to the minimum but not cut to the maximum.
ClampedExtentNoUpperBound(caps, requested) ==
    IF caps.current_extent # NoExtent
    THEN caps.current_extent
    ELSE [width  |-> Max(requested.width, caps.min_extent.width),
          height |-> Max(requested.height, caps.min_extent.height)]

\* SurfaceCapabilities::clamped_extent as used by SwapchainConfig::from_caps.
ClampedExtent(caps, requested) ==
    IF caps.current_extent # NoExtent
    THEN caps.current_extent
    ELSE [width  |-> Min(caps.max_extent.width, Max(requested.width, caps.min_extent.width)),
          height |-> Min(caps.max_extent.height, Max(requested.height, caps.min_extent.height))]

\* Mutant: the image count is set to 3 whatever the surface supports.
ImageCountAlwaysThree(caps) == 3

\* from_caps takes the start of the range; render() overrides it with 3.
ImageCount(caps) ==
    IF caps.image_count[1] <= 3 /\ 3 <= caps.image_count[2]
    THEN 3
    ELSE caps.image_count[1]

\* Mutant: a timed-out wait panics as an error does.
WaitPanicsOnTimeout(result) == result \in {"error", "timeout"}

\* `.expect("Out of memory or device lost")` on Result<bool, WaitError>:
\* only Err panics, the bool of Ok is dropped.
WaitPanics(result) == result = "error"

\* `x as i16` for a u32 x: the low 16 bits, read as two's complement.
AsI16(x) ==
    LET low == x % 65536
    IN  IF low >= 32768 THEN low - 65536 ELSE low

\* Viewport.rect built from surface_extent.
Viewport(extent) ==
    [x |-> 0, y |-> 0, w |-> AsI16(extent.width), h |-> AsI16(extent.height)]

\* The count of soft failures in a row after a call whose acquire or present
\* ended with `result`.
SoftFailuresAfter(count, result) ==
    IF result = "error" THEN Min(count + 1, MaxSoftFailures) ELSE 0

\* Mutant: a family that can present is taken, graphics or not.
CompatiblePresentOnly(family) == family.present

\* The predicate of `find` over adapter.queue_families.
Compatible(family) == family.present /\ family.graphics

\* Index of the family `find` returns, 0 for None.
FindQueueFamily(families) ==
    IF \E i \in DOMAIN families : Compatible(families[i])
    THEN CHOOSE i \in DOMAIN families :
            /\ Compatible(families[i])
            /\ \A j \in 1..(i - 1) : ~Compatible(families[j])
    ELSE 0

\* format.base_format().1 == ChannelType::Srgb
IsSrgb(format) == format \in {"Bgra8Srgb", "Rgba8Srgb"}

\* Mutant: the default is the fixed format even when the surface lists formats.
ColorFormatIgnoresPreferred(query) ==
    LET formats == IF query.some THEN query.formats ELSE <<>>
        srgb == {i \in DOMAIN formats : IsSrgb(formats[i])}
    IN  IF srgb # {}
        THEN formats[CHOOSE i \in srgb : \A j \in srgb : i <= j]
        ELSE "Rgba8Srgb"

\* unwrap_or(vec![]), get(0) or Rgba8Srgb as the default, then the first
\* SRGB format or the default.
ColorFormat(query) ==
    LET formats == IF query.some THEN query.formats ELSE <<>>
        default == IF formats # <<>> THEN formats[1] ELSE "Rgba8Srgb"
        srgb == {i \in DOMAIN formats : IsSrgb(formats[i])}
    IN  IF srgb # {}
        THEN formats[CHOOSE i \in srgb : \A j \in srgb : i <= j]
        ELSE default

\* Mutant: the swapchain is configured on every frame.
ShouldApplyAlways(flag) == TRUE

\* Mutant: the swapchain is never configured.
ShouldApplyNever(flag) == FALSE

\* `if self.should_configure_swapchain`
ShouldApply(flag) == flag

\* Mutant: every present asks for a reconfiguration.
FlagAfterPresentAlways(flag, result) == TRUE

\* Mutant: the present result is dropped.
FlagAfterPresentDropped(flag, result) == flag

\* Mutant: a suboptimal present asks for a reconfiguration as an error does.
FlagAfterPresentOnSuboptimal(flag, result) == flag \/ result # "ok"

\* `self.should_configure_swapchain |= result.is_err()`
FlagAfterPresent(flag, result) == flag \/ result = "error"

\* --------------------------------------------------------------- the model

\* No copy of the frame loop is being compared and no RenderState exists.
OutsideIdle ==
    /\ copy_in = "none"
    /\ copy_out = "none"
    /\ size = NoExtent
    /\ sc_desc = NoExtent
    /\ swap_chain = NoSwapChain

\* Mutant: new() returns with the flag clear.
InitFlagClear ==
    /\ pc = "Idle"
    /\ should_configure_swapchain = FALSE
    /\ surface_extent \in WindowSizes
    /\ submission_complete_fence = TRUE
    /\ rendering_complete_semaphore = 0
    /\ command_buffer = "initial"
    /\ gpu_queue = <<>>
    /\ swapchain = NoSwapchain
    /\ surface_image = FALSE
    /\ framebuffer = FALSE
    /\ objects = [o \in ObjectNames |-> "live"]
    /\ ops = <<>>
    /\ prev_ops = <<>>
    /\ resized = FALSE
    /\ resized_between = FALSE
    /\ pending_size = surface_extent
    /\ last_caps = NoCaps
    /\ teardown = <<>>
    /\ viewport = NoViewport
    /\ soft_failures = 0
    /\ queue_families = <<[present |-> TRUE, graphics |-> TRUE]>>
    /\ supported_formats = [some |-> TRUE, formats |-> <<"Bgra8Srgb">>]
    /\ queue_family = FindQueueFamily(queue_families)
    /\ color_format = ColorFormat(supported_formats)
    /\ OutsideIdle

\* Mutant: the fence is created unsignaled.
InitFenceUnsignaled ==
    /\ pc = "Idle"
    /\ should_configure_swapchain = TRUE
    /\ surface_extent \in WindowSizes
    /\ submission_complete_fence = FALSE
    /\ rendering_complete_semaphore = 0
    /\ command_buffer = "initial"
    /\ gpu_queue = <<>>
    /\ swapchain = NoSwapchain
    /\ surface_image = FALSE
    /\ framebuffer = FALSE
    /\ objects = [o \in ObjectNames |-> "live"]
    /\ ops = <<>>
    /\ prev_ops = <<>>
    /\ resized = FALSE
    /\ resized_between = FALSE
    /\ pending_size = surface_extent
    /\ last_caps = NoCaps
    /\ teardown = <<>>
    /\ viewport = NoViewport
    /\ soft_failures = 0
    /\ queue_families = <<[present |-> TRUE, graphics |-> TRUE]>>
    /\ supported_formats = [some |-> TRUE, formats |-> <<"Bgra8Srgb">>]
    /\ queue_family = FindQueueFamily(queue_families)
    /\ color_format = ColorFormat(supported_formats)
    /\ OutsideIdle

\* Renderer::new has returned.
Init ==
    /\ pc = "Idle"
    /\ should_configure_swapchain = TRUE
    /\ surface_extent \in WindowSizes
    /\ submission_complete_fence = TRUE
    /\ rendering_complete_semaphore = 0
    /\ command_buffer = "initial"
    /\ gpu_queue = <<>>
    /\ swapchain = NoSwapchain
    /\ surface_image = FALSE
    /\ framebuffer = FALSE
    /\ objects = [o \in ObjectNames |-> "live"]
    /\ ops = <<>>
    /\ prev_ops = <<>>
    /\ resized = FALSE
    /\ resized_between = FALSE
    /\ pending_size = surface_extent
    /\ last_caps = NoCaps
    /\ teardown = <<>>
    /\ viewport = NoViewport
    /\ soft_failures = 0
    /\ queue_families = <<[present |-> TRUE, graphics |-> TRUE]>>
    /\ supported_formats = [some |-> TRUE, formats |-> <<"Bgra8Srgb">>]
    /\ queue_family = FindQueueFamily(queue_families)
    /\ color_format = ColorFormat(supported_formats)
    /\ OutsideIdle

\* Mutant: width and height are taken from the wrong indices of physical_size.
update_dimensionsSwapsAxes ==
    /\ pc = "Idle"
    /\ \E physical_size \in WindowSizes :
          /\ surface_extent' =
                [width |-> physical_size.height, height |-> physical_size.width]
          /\ pending_size' = physical_size
    /\ should_configure_swapchain' = TRUE
    /\ resized' = TRUE
    /\ UNCHANGED <<outside_vars, construction_vars, frame_vars,
                   pc, gpu_vars, surface_vars, framebuffer, objects, ops, prev_ops,
                   resized_between, last_caps, teardown>>

update_dimensions ==
    /\ pc = "Idle"
    /\ \E physical_size \in WindowSizes :
          /\ surface_extent' = physical_size
          /\ pending_size' = physical_size
    /\ should_configure_swapchain' = TRUE
    /\ resized' = TRUE
    /\ UNCHANGED <<outside_vars, construction_vars, frame_vars,
                   pc, gpu_vars, surface_vars, framebuffer, objects, ops, prev_ops,
                   resized_between, last_caps, teardown>>

\* render() is entered: the borrows of res, render_pass and pipeline.
RenderEnter ==
    /\ pc = "Idle"
    /\ pc' = "FenceWait"
    /\ prev_ops' = ops
    /\ ops' = <<>>
    /\ resized_between' = resized
    /\ resized' = FALSE
    /\ UNCHANGED <<outside_vars, construction_vars, frame_vars,
                   renderer_vars, gpu_vars, surface_vars, framebuffer, objects,
                   local_vars>>

\* Resetting the fence while a batch that signals it is unretired leaves that
\* batch's signal undefined: the batch is marked orphan.
Orphaned(queue) == [i \in DOMAIN queue |-> [orphan |-> TRUE]]

\* wait_for_fence, reset_fence, command_pool.reset
FenceWait ==
    /\ pc = "FenceWait"
    /\ \E wait \in {"signaled", "timeout", "error"}, reset \in {"ok", "error"} :
          /\ wait = "signaled" => submission_complete_fence
          /\ wait = "timeout" =>
                ~submission_complete_fence /\ Len(gpu_queue) < MaxInFlight
          /\ IF WaitPanics(wait)
             THEN /\ pc' = "Aborted"
                  /\ ops' = ops \o <<<<"wait_for_fence", wait>>>>
                  /\ UNCHANGED gpu_vars
             ELSE IF reset = "error"
             THEN /\ pc' = "Aborted"
                  /\ ops' = ops \o <<<<"wait_for_fence", wait>>, <<"reset_fence", reset>>>>
                  /\ UNCHANGED gpu_vars
             ELSE /\ pc' = "SwapchainCheck"
                  /\ ops' = ops \o <<<<"wait_for_fence", wait>>, <<"reset_fence", reset>>,
                                     <<"command_pool_reset", "ok">>>>
                  /\ submission_complete_fence' = FALSE
                  /\ gpu_queue' = Orphaned(gpu_queue)
                  /\ command_buffer' = "initial"
                  /\ UNCHANGED rendering_complete_semaphore
    /\ UNCHANGED <<outside_vars, construction_vars, frame_vars,
                   renderer_vars, surface_vars, framebuffer, objects, log_vars, local_vars>>

\* Mutant: the flag is cleared before configure_swapchain is known to have succeeded.
SwapchainCheckClearsFirst ==
    /\ pc = "SwapchainCheck"
    /\ \E caps \in CapsSet, configure \in {"ok", "error"} :
          LET swapchain_config ==
                  [extent |-> ClampedExtent(caps, surface_extent),
                   image_count |-> ImageCount(caps)]
          IN  /\ surface_extent' = swapchain_config.extent
              /\ last_caps' = caps
              /\ IF ShouldApply(should_configure_swapchain)
                 THEN /\ ops' = ops \o <<<<"capabilities", "ok">>,
                                         <<"configure_swapchain", configure>>>>
                      /\ IF configure = "ok"
                         THEN /\ swapchain' = swapchain_config
                              /\ should_configure_swapchain' = FALSE
                              /\ pc' = "ImageAcquire"
                         ELSE /\ pc' = "Aborted"
                              /\ should_configure_swapchain' = FALSE
                              /\ UNCHANGED swapchain
                 ELSE /\ configure = "ok"
                      /\ ops' = ops \o <<<<"capabilities", "ok">>>>
                      /\ pc' = "ImageAcquire"
                      /\ UNCHANGED <<swapchain, should_configure_swapchain>>
    /\ pending_size' = NoExtent
    /\ UNCHANGED <<outside_vars, construction_vars, frame_vars,
                   gpu_vars, surface_image, framebuffer, objects, log_vars, teardown>>

\* The swapchain check making the calls `extra` on the device before it
\* configures the swapchain (the body of the mutants below).
SwapchainCheckAlso(extra) ==
    /\ pc = "SwapchainCheck"
    /\ \E caps \in CapsSet, configure \in {"ok", "error"} :
          LET swapchain_config ==
                  [extent |-> ClampedExtent(caps, surface_extent),
                   image_count |-> ImageCount(caps)]
          IN  /\ surface_extent' = swapchain_config.extent
              /\ last_caps' = caps
              /\ IF ShouldApply(should_configure_swapchain)
                 THEN /\ ops' = ops \o <<<<"capabilities", "ok">>>> \o extra \o
                                     <<<<"configure_swapchain", configure>>>>
                      /\ IF configure = "ok"
                         THEN /\ swapchain' = swapchain_config
                              /\ should_configure_swapchain' = FALSE
                              /\ pc' = "ImageAcquire"
                         ELSE /\ pc' = "Aborted"
                              /\ UNCHANGED <<swapchain, should_configure_swapchain>>
                 ELSE /\ configure = "ok"
                      /\ ops' = ops \o <<<<"capabilities", "ok">>>>
                      /\ pc' = "ImageAcquire"
                      /\ UNCHANGED <<swapchain, should_configure_swapchain>>
    /\ pending_size' = NoExtent
    /\ UNCHANGED <<outside_vars, construction_vars, frame_vars,
                   gpu_vars, surface_image, framebuffer, objects, log_vars, teardown>>

\* Mutant: a reconfiguration replaces the fence and the semaphore.
SwapchainCheckRecreatesSync ==
    SwapchainCheckAlso(<<<<"destroy_fence", "ok">>, <<"create_fence", "ok">>,
                         <<"destroy_semaphore", "ok">>, <<"create_semaphore", "ok">>>>)

\* Mutant: a reconfiguration replaces the semaphore.
SwapchainCheckRecreatesSemaphore ==
    SwapchainCheckAlso(<<<<"destroy_semaphore", "ok">>, <<"create_semaphore", "ok">>>>)

\* Mutant: a reconfiguration rebuilds the graphics pipeline.
SwapchainCheckRebuildsPipeline ==
    SwapchainCheckAlso(<<<<"destroy_graphics_pipeline", "ok">>,
                         <<"create_graphics_pipeline", "ok">>>>)

\* capabilities, from_caps, the image-count override, configure_swapchain
SwapchainCheck ==
    /\ pc = "SwapchainCheck"
    /\ \E caps \in CapsSet, configure \in {"ok", "error"} :
          LET swapchain_config ==
                  [extent |-> ClampedExtent(caps, surface_extent),
                   image_count |-> ImageCount(caps)]
          IN  /\ surface_extent' = swapchain_config.extent
              /\ last_caps' = caps
              /\ IF ShouldApply(should_configure_swapchain)
                 THEN /\ ops' = ops \o <<<<"capabilities", "ok">>,
                                         <<"configure_swapchain", configure>>>>
                      /\ IF configure = "ok"
                         THEN /\ swapchain' = swapchain_config
                              /\ should_configure_swapchain' = FALSE
                              /\ pc' = "ImageAcquire"
                         ELSE /\ pc' = "Aborted"
                              /\ UNCHANGED <<swapchain, should_configure_swapchain>>
                 ELSE /\ configure = "ok"
                      /\ ops' = ops \o <<<<"capabilities", "ok">>>>
                      /\ pc' = "ImageAcquire"
                      /\ UNCHANGED <<swapchain, should_configure_swapchain>>
    /\ pending_size' = NoExtent
    /\ UNCHANGED <<outside_vars, construction_vars, frame_vars,
                   gpu_vars, surface_image, framebuffer, objects, log_vars, teardown>>

\* Mutant: a failed acquire sets the flag and goes on with the frame.
ImageAcquireFallsThrough ==
    /\ pc = "ImageAcquire"
    /\ \E acquire \in {"ok", "error"} :
          /\ ops' = ops \o <<<<"acquire_image", acquire>>>>
          /\ soft_failures' = IF acquire = "ok"
                              THEN soft_failures
                              ELSE SoftFailuresAfter(soft_failures, acquire)
          /\ IF acquire = "ok"
             THEN /\ surface_image' = TRUE
                  /\ UNCHANGED should_configure_swapchain
             ELSE /\ should_configure_swapchain' = TRUE
                  /\ UNCHANGED surface_image
    /\ pc' = "CreateFramebuffer"
    /\ last_caps' = NoCaps
    /\ UNCHANGED <<outside_vars, construction_vars, viewport,
                   surface_extent, gpu_vars, swapchain, framebuffer, objects, log_vars,
                   pending_size, teardown>>

\* Mutant: a failed acquire is unwrapped, as the other results are.
ImageAcquirePanics ==
    /\ pc = "ImageAcquire"
    /\ \E acquire \in {"ok", "error"} :
          /\ ops' = ops \o <<<<"acquire_image", acquire>>>>
          /\ soft_failures' = IF acquire = "ok"
                              THEN soft_failures
                              ELSE SoftFailuresAfter(soft_failures, acquire)
          /\ IF acquire = "ok"
             THEN /\ surface_image' = TRUE
                  /\ pc' = "CreateFramebuffer"
                  /\ UNCHANGED should_configure_swapchain
             ELSE /\ should_configure_swapchain' = TRUE
                  /\ pc' = "Aborted"
                  /\ UNCHANGED surface_image
    /\ last_caps' = NoCaps
    /\ UNCHANGED <<outside_vars, construction_vars, viewport,
                   surface_extent, gpu_vars, swapchain, framebuffer, objects, log_vars,
                   pending_size, teardown>>

\* Mutant: a failed acquire returns without setting the flag.
ImageAcquireKeepsFlag ==
    /\ pc = "ImageAcquire"
    /\ \E acquire \in {"ok", "error"} :
          /\ ops' = ops \o <<<<"acquire_image", acquire>>>>
          /\ soft_failures' = IF acquire = "ok"
                              THEN soft_failures
                              ELSE SoftFailuresAfter(soft_failures, acquire)
          /\ IF acquire = "ok"
             THEN /\ surface_image' = TRUE
                  /\ pc' = "CreateFramebuffer"
             ELSE /\ pc' = "Idle"
                  /\ UNCHANGED surface_image
    /\ last_caps' = NoCaps
    /\ UNCHANGED <<outside_vars, construction_vars, viewport,
                   renderer_vars, gpu_vars, swapchain, framebuffer, objects, log_vars,
                   pending_size, teardown>>

\* acquire_image: any Err sets the flag and returns
ImageAcquire ==
    /\ pc = "ImageAcquire"
    /\ \E acquire \in {"ok", "error"} :
          /\ ops' = ops \o <<<<"acquire_image", acquire>>>>
          /\ soft_failures' = IF acquire = "ok"
                              THEN soft_failures
                              ELSE SoftFailuresAfter(soft_failures, acquire)
          /\ IF acquire = "ok"
             THEN /\ surface_image' = TRUE
                  /\ pc' = "CreateFramebuffer"
                  /\ UNCHANGED should_configure_swapchain
             ELSE /\ should_configure_swapchain' = TRUE
                  /\ pc' = "Idle"
                  /\ UNCHANGED surface_image
    /\ last_caps' = NoCaps
    /\ UNCHANGED <<outside_vars, construction_vars, viewport,
                   surface_extent, gpu_vars, swapchain, framebuffer, objects, log_vars,
                   pending_size, teardown>>

\* Mutant: a failed framebuffer creation returns instead of panicking.
CreateFramebufferReturnsOnError ==
    /\ pc = "CreateFramebuffer"
    /\ \E create \in {"ok", "error"} :
          /\ ops' = ops \o <<<<"create_framebuffer", create>>>>
          /\ IF create = "ok"
             THEN framebuffer' = TRUE /\ pc' = "Recording"
             ELSE framebuffer' = framebuffer /\ pc' = "Idle"
    /\ UNCHANGED <<outside_vars, construction_vars, frame_vars,
                   renderer_vars, gpu_vars, surface_vars, objects, log_vars, local_vars>>

\* create_framebuffer(...).unwrap()
CreateFramebuffer ==
    /\ pc = "CreateFramebuffer"
    /\ \E create \in {"ok", "error"} :
          /\ ops' = ops \o <<<<"create_framebuffer", create>>>>
          /\ IF create = "ok"
             THEN framebuffer' = TRUE /\ pc' = "Recording"
             ELSE framebuffer' = framebuffer /\ pc' = "Aborted"
    /\ UNCHANGED <<outside_vars, construction_vars, frame_vars,
                   renderer_vars, gpu_vars, surface_vars, objects, log_vars, local_vars>>

\* Mutant: the recorded buffer is presented without being submitted.
RecordingSkipsSubmit ==
    /\ pc = "Recording"
    /\ ops' = ops \o <<<<"record", "ok">>>>
    /\ command_buffer' = "executable"
    /\ viewport' = Viewport(surface_extent)
    /\ rendering_complete_semaphore' = rendering_complete_semaphore + 1
    /\ pc' = "Present"
    /\ UNCHANGED <<outside_vars, construction_vars, soft_failures,
                   renderer_vars, submission_complete_fence, gpu_queue, surface_vars,
                   framebuffer, objects, log_vars, local_vars>>

\* begin_primary ... finish
Recording ==
    /\ pc = "Recording"
    /\ ops' = ops \o <<<<"record", "ok">>>>
    /\ command_buffer' = "executable"
    /\ viewport' = Viewport(surface_extent)
    /\ pc' = "Submit"
    /\ UNCHANGED <<outside_vars, construction_vars, soft_failures,
                   renderer_vars, submission_complete_fence,
                   rendering_complete_semaphore, gpu_queue, surface_vars,
                   framebuffer, objects, log_vars, local_vars>>

\* Mutant: the submit signals no semaphore.
SubmitWithoutSemaphore ==
    /\ pc = "Submit"
    /\ ops' = ops \o <<<<"submit", "ok">>>>
    /\ gpu_queue' = Append(gpu_queue, [orphan |-> FALSE])
    /\ command_buffer' = "pending"
    /\ pc' = "Present"
    /\ UNCHANGED <<outside_vars, construction_vars, frame_vars, renderer_vars, submission_complete_fence,
                   rendering_complete_semaphore, surface_vars, framebuffer, objects,
                   log_vars, local_vars>>

\* queue.submit: signals the semaphore, and the fence on retirement
Submit ==
    /\ pc = "Submit"
    /\ ops' = ops \o <<<<"submit", "ok">>>>
    /\ gpu_queue' = Append(gpu_queue, [orphan |-> FALSE])
    /\ command_buffer' = "pending"
    /\ rendering_complete_semaphore' = rendering_complete_semaphore + 1
    /\ pc' = "Present"
    /\ UNCHANGED <<outside_vars, construction_vars, frame_vars,
                   renderer_vars, submission_complete_fence, surface_vars,
                   framebuffer, objects, log_vars, local_vars>>

\* Mutant: present is called without the semaphore to wait on.
PresentWithoutWait ==
    /\ pc = "Present"
    /\ \E result \in {"ok", "suboptimal", "error"} :
          /\ ops' = ops \o <<<<"present", result>>>>
          /\ should_configure_swapchain' =
                FlagAfterPresent(should_configure_swapchain, result)
    /\ surface_image' = FALSE
    /\ pc' = "DestroyFramebuffer"
    /\ UNCHANGED <<outside_vars, construction_vars, frame_vars,
                   surface_extent, gpu_vars, swapchain, framebuffer, objects,
                   log_vars, local_vars>>

\* Mutant: the present result is unwrapped before the framebuffer is destroyed.
PresentPanics ==
    /\ pc = "Present"
    /\ \E result \in {"ok", "suboptimal", "error"} :
          /\ ops' = ops \o <<<<"present", result>>>>
          /\ should_configure_swapchain' =
                FlagAfterPresent(should_configure_swapchain, result)
          /\ pc' = IF result = "error" THEN "Aborted" ELSE "DestroyFramebuffer"
    /\ rendering_complete_semaphore' = rendering_complete_semaphore - 1
    /\ surface_image' = FALSE
    /\ UNCHANGED <<outside_vars, construction_vars, frame_vars,
                   surface_extent, submission_complete_fence, command_buffer,
                   gpu_queue, swapchain, framebuffer, objects, log_vars, local_vars>>

\* Mutant: a failed present returns at once, as a failed acquire does.
PresentReturnsOnError ==
    /\ pc = "Present"
    /\ \E result \in {"ok", "suboptimal", "error"} :
          /\ ops' = ops \o <<<<"present", result>>>>
          /\ should_configure_swapchain' =
                FlagAfterPresent(should_configure_swapchain, result)
          /\ pc' = IF result = "error" THEN "Idle" ELSE "DestroyFramebuffer"
    /\ rendering_complete_semaphore' = rendering_complete_semaphore - 1
    /\ surface_image' = FALSE
    /\ UNCHANGED <<outside_vars, construction_vars, frame_vars,
                   surface_extent, submission_complete_fence, command_buffer,
                   gpu_queue, swapchain, framebuffer, objects, log_vars, local_vars>>

\* queue.present: waits on the semaphore, gives the image back
Present ==
    /\ pc = "Present"
    /\ \E result \in {"ok", "suboptimal", "error"} :
          /\ ops' = ops \o <<<<"present", result>>>>
          /\ should_configure_swapchain' =
                FlagAfterPresent(should_configure_swapchain, result)
    /\ rendering_complete_semaphore' = rendering_complete_semaphore - 1
    /\ surface_image' = FALSE
    /\ pc' = "DestroyFramebuffer"
    /\ UNCHANGED <<outside_vars, construction_vars, frame_vars,
                   surface_extent, submission_complete_fence, command_buffer,
                   gpu_queue, swapchain, framebuffer, objects, log_vars, local_vars>>

\* destroy_framebuffer, then render() returns
DestroyFramebuffer ==
    /\ pc = "DestroyFramebuffer"
    /\ ops' = ops \o <<<<"destroy_framebuffer", "ok">>>>
    /\ framebuffer' = FALSE
    /\ viewport' = NoViewport
    /\ soft_failures' = SoftFailuresAfter(soft_failures, Result(ops, "present"))
    /\ pc' = "Idle"
    /\ UNCHANGED <<outside_vars, construction_vars,
                   renderer_vars, gpu_vars, surface_vars, objects, log_vars, local_vars>>

\* The GPU retires the oldest batch: its fence signals (an orphaned batch may
\* or may not signal it) and the command buffer leaves the pending state once
\* the queue is empty.
GpuRetire ==
    /\ gpu_queue # <<>>
    /\ gpu_queue' = Tail(gpu_queue)
    /\ \E signals \in BOOLEAN :
          /\ ~Head(gpu_queue).orphan => signals
          /\ submission_complete_fence' = (submission_complete_fence \/ signals)
    /\ command_buffer' =
          IF Len(gpu_queue) = 1 /\ command_buffer = "pending"
          THEN "invalid"
          ELSE command_buffer
    /\ UNCHANGED <<outside_vars, construction_vars, frame_vars,
                   pc, renderer_vars, rendering_complete_semaphore, surface_vars,
                   framebuffer, objects, ops, log_vars, local_vars>>

\* Mutant: the instance is destroyed while its surface still exists.
DropCallsInstanceFirst ==
    <<"rendering_complete_semaphore", "submission_complete_fence", "pipeline",
      "pipeline_layout", "render_pass", "command_pool", "instance",
      "unconfigure_swapchain", "surface">>

\* Mutant: the fence is never destroyed, the semaphore is destroyed twice.
DropCallsFenceForgotten ==
    <<"rendering_complete_semaphore", "rendering_complete_semaphore", "pipeline",
      "pipeline_layout", "render_pass", "command_pool", "unconfigure_swapchain",
      "surface", "instance">>

\* The destroy calls of drop(), in source order; the instance, which no call
\* destroys, is dropped with what is left of `r` when drop() ends.
DropCalls ==
    <<"rendering_complete_semaphore", "submission_complete_fence", "pipeline",
      "pipeline_layout", "render_pass", "command_pool", "unconfigure_swapchain",
      "surface", "instance">>

\* Drop for Renderer: Option::take on the resources, then the destroy calls.
Drop ==
    /\ pc = "Idle"
    /\ pc' = "Dropped"
    /\ teardown' = teardown \o DropCalls
    /\ objects' = [o \in ObjectNames |->
                      IF \E i \in DOMAIN DropCalls : DropCalls[i] = o
                      THEN "destroyed"
                      ELSE objects[o]]
    /\ swapchain' = NoSwapchain
    /\ UNCHANGED <<outside_vars, construction_vars, frame_vars,
                   renderer_vars, gpu_vars, surface_image, framebuffer, ops, log_vars,
                   pending_size, last_caps>>

\* A panic in render() unwinds: the locals of the frame are dropped, then the
\* owner of the Renderer drops it, which runs drop() as above.
Unwind ==
    /\ pc = "Aborted"
    /\ pc' = "Unwound"
    /\ surface_image' = FALSE
    /\ last_caps' = NoCaps
    /\ teardown' = teardown \o DropCalls
    /\ objects' = [o \in ObjectNames |->
                      IF \E i \in DOMAIN DropCalls : DropCalls[i] = o
                      THEN "destroyed"
                      ELSE objects[o]]
    /\ swapchain' = NoSwapchain
    /\ UNCHANGED <<outside_vars, construction_vars, frame_vars,
                   renderer_vars, gpu_vars, framebuffer, ops, log_vars, pending_size>>

render ==
    \/ RenderEnter
    \/ FenceWait
    \/ SwapchainCheck
    \/ ImageAcquire
    \/ CreateFramebuffer
    \/ Recording
    \/ Submit
    \/ Present
    \/ DestroyFramebuffer

Next ==
    \/ update_dimensions
    \/ render
    \/ GpuRetire
    \/ Drop
    \/ Unwind

Spec == Init /\ [][Next]_vars

\* ------------------------------------------------------- Renderer::new

\* Before new(): nothing exists; the adapter's families and the surface's
\* formats are what the backend will report.
InitNew ==
    /\ pc = "NewBackend"
    /\ should_configure_swapchain = FALSE
    /\ surface_extent = NoExtent
    /\ pending_size \in WindowSizes
    /\ submission_complete_fence = FALSE
    /\ rendering_complete_semaphore = 0
    /\ command_buffer = "initial"
    /\ gpu_queue = <<>>
    /\ swapchain = NoSwapchain
    /\ surface_image = FALSE
    /\ framebuffer = FALSE
    /\ objects = [o \in ObjectNames |-> "none"]
    /\ ops = <<>>
    /\ prev_ops = <<>>
    /\ resized = FALSE
    /\ resized_between = FALSE
    /\ last_caps = NoCaps
    /\ teardown = <<>>
    /\ viewport = NoViewport
    /\ soft_failures = 0
    /\ queue_families \in QueueFamilyLists
    /\ supported_formats \in FormatQueries
    /\ queue_family = 0
    /\ color_format = "none"
    /\ OutsideIdle

\* What a step of new() leaves alone besides pc, ops and objects.
new_unchanged ==
    <<renderer_vars, gpu_vars, surface_vars, framebuffer, log_vars, local_vars,
      frame_vars, queue_families, supported_formats>>

\* One creating step of new(): `made` come to exist unless the call fails,
\* and a failure is a panic (expect / unwrap).
Create(call, made, next) ==
    \E result \in {"ok", "error"} :
        /\ ops' = ops \o <<<<call, result>>>>
        /\ IF result = "ok"
           THEN /\ objects' = [o \in ObjectNames |->
                                  IF o \in made THEN "live" ELSE objects[o]]
                /\ pc' = next
           ELSE /\ pc' = "Aborted"
                /\ UNCHANGED objects

\* Instance::create(..).expect(..)
NewBackend ==
    /\ pc = "NewBackend"
    /\ Create("create_instance", {"instance"}, "NewSurface")
    /\ UNCHANGED <<outside_vars, new_unchanged, queue_family, color_format>>

\* create_surface(..).expect(..); the first adapter is taken
NewSurface ==
    /\ pc = "NewSurface"
    /\ Create("create_surface", {"surface"}, "NewDevice")
    /\ UNCHANGED <<outside_vars, new_unchanged, queue_family, color_format>>

\* The queue family is searched, then the device is opened on it.
NewDevice ==
    /\ pc = "NewDevice"
    /\ LET family == FindQueueFamily(queue_families)
       IN  IF family = 0
           THEN /\ pc' = "Aborted"
                /\ ops' = ops \o <<<<"find_queue_family", "none">>>>
                /\ UNCHANGED <<objects, queue_family>>
           ELSE /\ queue_family' = family
                /\ Create("open", {}, "NewCommandPool")
    /\ UNCHANGED <<outside_vars, new_unchanged, color_format>>

\* create_command_pool(..).expect(..), allocate_one
NewCommandPool ==
    /\ pc = "NewCommandPool"
    /\ Create("create_command_pool", {"command_pool"}, "NewColorFormat")
    /\ UNCHANGED <<outside_vars, new_unchanged, queue_family, color_format>>

\* supported_formats and the choice of color_format
NewColorFormat ==
    /\ pc = "NewColorFormat"
    /\ color_format' = ColorFormat(supported_formats)
    /\ ops' = ops \o <<<<"supported_formats", IF supported_formats.some THEN "ok" ELSE "none">>>>
    /\ pc' = "NewRenderPass"
    /\ UNCHANGED <<outside_vars, new_unchanged, objects, queue_family>>

\* create_render_pass(..).expect(..)
NewRenderPass ==
    /\ pc = "NewRenderPass"
    /\ Create("create_render_pass", {"render_pass"}, "NewPipelineLayout")
    /\ UNCHANGED <<outside_vars, new_unchanged, queue_family, color_format>>

\* create_pipeline_layout(..).expect(..)
NewPipelineLayout ==
    /\ pc = "NewPipelineLayout"
    /\ Create("create_pipeline_layout", {"pipeline_layout"}, "NewPipeline")
    /\ UNCHANGED <<outside_vars, new_unchanged, queue_family, color_format>>

\* make_pipeline: shader compilation and create_graphics_pipeline
NewPipeline ==
    /\ pc = "NewPipeline"
    /\ Create("create_graphics_pipeline", {"pipeline"}, "NewFence")
    /\ UNCHANGED <<outside_vars, new_unchanged, queue_family, color_format>>

\* create_fence(true)
NewFence ==
    /\ pc = "NewFence"
    /\ \E result \in {"ok", "error"} :
          /\ ops' = ops \o <<<<"create_fence", result>>>>
          /\ IF result = "ok"
             THEN /\ objects' = [objects EXCEPT !["submission_complete_fence"] = "live"]
                  /\ submission_complete_fence' = TRUE
                  /\ pc' = "NewSemaphore"
             ELSE /\ pc' = "Aborted"
                  /\ UNCHANGED <<objects, submission_complete_fence>>
    /\ UNCHANGED <<outside_vars, renderer_vars, rendering_complete_semaphore, command_buffer, gpu_queue,
                   surface_vars, framebuffer, log_vars, local_vars, frame_vars,
                   construction_vars>>

\* create_semaphore, then the Renderer value is built and returned
NewSemaphore ==
    /\ pc = "NewSemaphore"
    /\ \E result \in {"ok", "error"} :
          /\ ops' = ops \o <<<<"create_semaphore", result>>>>
          /\ IF result = "ok"
             THEN /\ objects' =
                        [objects EXCEPT !["rendering_complete_semaphore"] = "live"]
                  /\ surface_extent' = pending_size
                  /\ should_configure_swapchain' = TRUE
                  /\ pc' = "Idle"
             ELSE /\ pc' = "Aborted"
                  /\ UNCHANGED <<objects, renderer_vars>>
    /\ UNCHANGED <<outside_vars, gpu_vars, surface_vars, framebuffer, log_vars, local_vars, frame_vars,
                   construction_vars>>

\* A panic in new() ends it before a Renderer exists: the objects made so far
\* are locals holding raw handles, and no destroy call of the repository is
\* reached. Whether dropping the instance value releases the instance is the
\* backend's matter.
NewUnwind ==
    /\ pc = "Aborted"
    /\ pc' = "Unwound"
    /\ \E released \in SUBSET {"instance"} :
          objects' = [o \in ObjectNames |->
                         IF o \in released /\ objects[o] = "live"
                         THEN "destroyed"
                         ELSE objects[o]]
    /\ UNCHANGED <<outside_vars, new_unchanged, ops, queue_family, color_format>>

new ==
    \/ NewBackend
    \/ NewSurface
    \/ NewDevice
    \/ NewCommandPool
    \/ NewColorFormat
    \/ NewRenderPass
    \/ NewPipelineLayout
    \/ NewPipeline
    \/ NewFence
    \/ NewSemaphore
    \/ NewUnwind

SpecNew == InitNew /\ [][new]_vars

\* ------------------------------------------------- recording, any extent

\* A frame about to be recorded on a surface of any extent a u32 pair can hold.
InitRecording ==
    /\ pc = "Recording"
    /\ should_configure_swapchain = FALSE
    /\ surface_extent \in [width : WideDim, height : WideDim]
    /\ pending_size = NoExtent
    /\ submission_complete_fence = FALSE
    /\ rendering_complete_semaphore = 0
    /\ command_buffer = "initial"
    /\ gpu_queue = <<>>
    /\ swapchain = [extent |-> surface_extent, image_count |-> 3]
    /\ surface_image = TRUE
    /\ framebuffer = TRUE
    /\ objects = [o \in ObjectNames |-> "live"]
    /\ ops = <<<<"wait_for_fence", "signaled">>, <<"reset_fence", "ok">>,
                <<"command_pool_reset", "ok">>, <<"capabilities", "ok">>,
                <<"configure_swapchain", "ok">>, <<"acquire_image", "ok">>,
                <<"create_framebuffer", "ok">>>>
    /\ prev_ops = <<>>
    /\ resized = FALSE
    /\ resized_between = FALSE
    /\ last_caps = NoCaps
    /\ teardown = <<>>
    /\ viewport = NoViewport
    /\ soft_failures = 0
    /\ queue_families = <<[present |-> TRUE, graphics |-> TRUE]>>
    /\ supported_formats = [some |-> TRUE, formats |-> <<"Bgra8Srgb">>]
    /\ queue_family = FindQueueFamily(queue_families)
    /\ color_format = ColorFormat(supported_formats)
    /\ OutsideIdle

SpecRecording == InitRecording /\ [][Recording \/ Submit]_vars

\* ------------------------------------ the three copies of the frame loop

\* What one frame is given: the flag and extent on entry and the result of
\* every call whose result the frame loop reads.
FrameInputs ==
    [kind : {"frame"}, flag : BOOLEAN, extent : WindowSizes,
     wait : {"signaled", "timeout", "error"}, reset : {"ok", "error"},
     caps : CapsSet, configure : {"ok", "error"}, acquire : {"ok", "error"},
     create : {"ok", "error"}, present : {"ok", "suboptimal", "error"}]

\* What one resize is given: the flag and extent before it and the new size.
ResizeInputs ==
    [kind : {"resize"}, flag : BOOLEAN, extent : WindowSizes, new_size : Extent2D]

\* A teardown takes no input.
TeardownInputs == {[kind |-> "teardown"]}

\* Renderer::render of src/graphics/renderer.rs as a function of its inputs:
\* the calls it makes with their arguments and results, the flag and extent
\* it leaves, and whether it returned or panicked.
graphics_render(in) ==
    LET swapchain_config ==
            [extent |-> ClampedExtent(in.caps, in.extent),
             image_count |->
                 IF in.caps.image_count[1] <= 3 /\ 3 <= in.caps.image_count[2]
                 THEN 3
                 ELSE in.caps.image_count[1]]
        surface_extent_1 == swapchain_config.extent
        flag_1 == IF in.flag THEN FALSE ELSE in.flag
        waited == <<<<"wait_for_fence", 1000000000, in.wait>>>>
        reset == waited \o <<<<"reset_fence", in.reset>>>>
        checked ==
            reset \o <<<<"command_pool.reset", FALSE>>, <<"capabilities">>>>
            \o (IF in.flag
                THEN <<<<"configure_swapchain", swapchain_config, in.configure>>>>
                ELSE <<>>)
        acquired == checked \o <<<<"acquire_image", 1000000000, in.acquire>>>>
        created ==
            acquired \o
            <<<<"create_framebuffer",
                [width |-> surface_extent_1.width, height |-> surface_extent_1.height,
                 depth |-> 1],
                in.create>>>>
        presented ==
            created \o
            <<<<"record",
                [x |-> 0, y |-> 0, w |-> AsI16(surface_extent_1.width),
                 h |-> AsI16(surface_extent_1.height)]>>,
              <<"submit", "rendering_complete_semaphore", "submission_complete_fence">>,
              <<"present", "rendering_complete_semaphore", in.present>>,
              <<"destroy_framebuffer">>>>
    IN  IF in.wait = "error"
        THEN [ops |-> waited, flag |-> in.flag, extent |-> in.extent, end |-> "panic"]
        ELSE IF in.reset = "error"
        THEN [ops |-> reset, flag |-> in.flag, extent |-> in.extent, end |-> "panic"]
        ELSE IF in.flag /\ in.configure = "error"
        THEN [ops |-> checked, flag |-> in.flag, extent |-> surface_extent_1,
              end |-> "panic"]
        ELSE IF in.acquire = "error"
        THEN [ops |-> acquired, flag |-> TRUE, extent |-> surface_extent_1,
              end |-> "return"]
        ELSE IF in.create = "error"
        THEN [ops |-> created, flag |-> flag_1, extent |-> surface_extent_1,
              end |-> "panic"]
        ELSE [ops |-> presented, flag |-> (flag_1 \/ in.present = "error"),
              extent |-> surface_extent_1, end |-> "return"]

\* Renderer::render of src/renderer.rs.
renderer_render(in) ==
    LET swapchain_config ==
            [extent |-> ClampedExtent(in.caps, in.extent),
             image_count |->
                 IF in.caps.image_count[1] <= 3 /\ 3 <= in.caps.image_count[2]
                 THEN 3
                 ELSE in.caps.image_count[1]]
        render_timeout_ns == 1000000000
        acquire_timeout_ns == 1000000000
        extent_after_check == swapchain_config.extent
        flag_after_check == IF in.flag THEN FALSE ELSE in.flag
        fence == <<<<"wait_for_fence", render_timeout_ns, in.wait>>>>
        fence_reset == fence \o <<<<"reset_fence", in.reset>>>>
        pool_reset == fence_reset \o <<<<"command_pool.reset", FALSE>>>>
        capabilities == pool_reset \o <<<<"capabilities">>>>
        configured ==
            IF in.flag
            THEN capabilities \o
                 <<<<"configure_swapchain", swapchain_config, in.configure>>>>
            ELSE capabilities
        image == configured \o <<<<"acquire_image", acquire_timeout_ns, in.acquire>>>>
        framebuffer_made ==
            image \o
            <<<<"create_framebuffer",
                [width |-> extent_after_check.width,
                 height |-> extent_after_check.height, depth |-> 1],
                in.create>>>>
        recorded ==
            framebuffer_made \o
            <<<<"record",
                [x |-> 0, y |-> 0, w |-> AsI16(extent_after_check.width),
                 h |-> AsI16(extent_after_check.height)]>>>>
        submitted ==
            recorded \o
            <<<<"submit", "rendering_complete_semaphore", "submission_complete_fence">>>>
        presented ==
            submitted \o <<<<"present", "rendering_complete_semaphore", in.present>>>>
        destroyed == presented \o <<<<"destroy_framebuffer">>>>
    IN  CASE in.wait = "error" ->
               [ops |-> fence, flag |-> in.flag, extent |-> in.extent, end |-> "panic"]
          [] in.wait # "error" /\ in.reset = "error" ->
               [ops |-> fence_reset, flag |-> in.flag, extent |-> in.extent,
                end |-> "panic"]
          [] OTHER ->
               IF in.flag /\ in.configure = "error"
               THEN [ops |-> configured, flag |-> TRUE, extent |-> extent_after_check,
                     end |-> "panic"]
               ELSE IF in.acquire = "error"
               THEN [ops |-> image, flag |-> TRUE, extent |-> extent_after_check,
                     end |-> "return"]
               ELSE IF in.create = "error"
               THEN [ops |-> framebuffer_made, flag |-> flag_after_check,
                     extent |-> extent_after_check, end |-> "panic"]
               ELSE [ops |-> destroyed,
                     flag |-> (flag_after_check \/ in.present = "error"),
                     extent |-> extent_after_check, end |-> "return"]

\* Mutant: the copy in src/main.rs returns from a failed acquire without
\* raising the flag.
main_redraw_requestedKeepsFlag(in) ==
    LET out == renderer_render(in)
    IN  IF in.wait # "error" /\ in.reset # "error"
           /\ ~(in.flag /\ in.configure = "error") /\ in.acquire = "error"
        THEN [out EXCEPT !.flag = IF in.flag THEN FALSE ELSE in.flag]
        ELSE out

\* The Event::RedrawRequested arm of src/main.rs.
main_redraw_requested(in) ==
    LET from_caps == ClampedExtent(in.caps, in.extent)
        image_count ==
            IF 3 \in (in.caps.image_count[1])..(in.caps.image_count[2])
            THEN 3
            ELSE in.caps.image_count[1]
        swapchain_config == [extent |-> from_caps, image_count |-> image_count]
        step(log, call) == log \o <<call>>
        s1 == step(<<>>, <<"wait_for_fence", 1000000000, in.wait>>)
        s2 == step(s1, <<"reset_fence", in.reset>>)
        s3 == step(step(s2, <<"command_pool.reset", FALSE>>), <<"capabilities">>)
        s4 == IF in.flag
              THEN step(s3, <<"configure_swapchain", swapchain_config, in.configure>>)
              ELSE s3
        s5 == step(s4, <<"acquire_image", 1000000000, in.acquire>>)
        s6 == step(s5, <<"create_framebuffer",
                         [width |-> from_caps.width, height |-> from_caps.height,
                          depth |-> 1],
                         in.create>>)
        s7 == step(s6, <<"record",
                         [x |-> 0, y |-> 0, w |-> AsI16(from_caps.width),
                          h |-> AsI16(from_caps.height)]>>)
        s8 == step(s7, <<"submit", "rendering_complete_semaphore",
                         "submission_complete_fence">>)
        s9 == step(s8, <<"present", "rendering_complete_semaphore", in.present>>)
        s10 == step(s9, <<"destroy_framebuffer">>)
        panicked(log, extent) ==
            [ops |-> log, flag |-> in.flag, extent |-> extent, end |-> "panic"]
    IN  IF in.wait = "error" THEN panicked(s1, in.extent)
        ELSE IF in.reset = "error" THEN panicked(s2, in.extent)
        ELSE IF in.flag /\ in.configure = "error" THEN panicked(s4, from_caps)
        ELSE IF in.acquire = "error"
        THEN [ops |-> s5, flag |-> TRUE, extent |-> from_caps, end |-> "return"]
        ELSE IF in.create = "error"
        THEN [ops |-> s6, flag |-> FALSE, extent |-> from_caps, end |-> "panic"]
        ELSE [ops |-> s10, flag |-> (in.present = "error"), extent |-> from_caps,
              end |-> "return"]

\* Renderer::update_dimensions of src/graphics/renderer.rs; the caller passes
\* the window's size as [width, height].
graphics_update_dimensions(in) ==
    LET physical_size == <<in.new_size.width, in.new_size.height>>
    IN  [extent |-> [width |-> physical_size[1], height |-> physical_size[2]],
         flag |-> TRUE, ops |-> <<>>]

\* Renderer::update_dimensions(width, height) of src/renderer.rs.
renderer_update_dimensions(in) ==
    LET width == in.new_size.width
        height == in.new_size.height
    IN  [extent |-> [width |-> width, height |-> height], flag |-> TRUE, ops |-> <<>>]

\* The WindowEvent::Resized and ScaleFactorChanged arms of src/main.rs.
main_resized(in) ==
    [extent |-> [width |-> in.new_size.width, height |-> in.new_size.height],
     flag |-> TRUE, ops |-> <<>>]

\* Drop for Renderer of src/graphics/renderer.rs: its destroy calls in order.
graphics_drop ==
    <<"destroy_semaphore", "destroy_fence", "destroy_graphics_pipeline",
      "destroy_pipeline_layout", "destroy_render_pass", "destroy_command_pool",
      "unconfigure_swapchain", "destroy_surface">>

\* Drop for ResourceHolder of src/renderer.rs.
renderer_drop ==
    <<"destroy_semaphore", "destroy_fence">>
    \o <<"destroy_graphics_pipeline">>
    \o <<"destroy_pipeline_layout">>
    \o <<"destroy_render_pass">>
    \o <<"destroy_command_pool", "unconfigure_swapchain", "destroy_surface">>

\* Drop for ResourceHolder of src/main.rs.
main_drop ==
    <<"destroy_semaphore", "destroy_fence">>
    \o <<"destroy_graphics_pipeline">>
    \o <<"destroy_pipeline_layout">>
    \o <<"destroy_render_pass">>
    \o <<"destroy_command_pool", "unconfigure_swapchain", "destroy_surface">>

\* The three copies are about to be given the same input.
InitCopies ==
    /\ pc = "Copies"
    /\ copy_in \in FrameInputs \cup ResizeInputs \cup TeardownInputs
    /\ copy_out = "none"
    /\ size = NoExtent
    /\ sc_desc = NoExtent
    /\ swap_chain = NoSwapChain
    /\ should_configure_swapchain = FALSE
    /\ surface_extent = NoExtent
    /\ pending_size = NoExtent
    /\ submission_complete_fence = FALSE
    /\ rendering_complete_semaphore = 0
    /\ command_buffer = "initial"
    /\ gpu_queue = <<>>
    /\ swapchain = NoSwapchain
    /\ surface_image = FALSE
    /\ framebuffer = FALSE
    /\ objects = [o \in ObjectNames |-> "none"]
    /\ ops = <<>>
    /\ prev_ops = <<>>
    /\ resized = FALSE
    /\ resized_between = FALSE
    /\ last_caps = NoCaps
    /\ teardown = <<>>
    /\ viewport = NoViewport
    /\ soft_failures = 0
    /\ queue_families = <<>>
    /\ supported_formats = [some |-> FALSE, formats |-> <<>>]
    /\ queue_family = 0
    /\ color_format = "none"

\* What the comparison leaves alone.
copies_unchanged ==
    <<render_state_vars, renderer_vars, gpu_vars, surface_vars, framebuffer, objects,
      ops, log_vars, local_vars, frame_vars, construction_vars, copy_in>>

\* Each copy runs one frame on the same input.
CopiesRender ==
    /\ pc = "Copies"
    /\ copy_in.kind = "frame"
    /\ copy_out' = [graphics |-> graphics_render(copy_in),
                    renderer |-> renderer_render(copy_in),
                    main |-> main_redraw_requested(copy_in)]
    /\ pc' = "Compared"
    /\ UNCHANGED copies_unchanged

\* Each copy handles the same resize.
CopiesResize ==
    /\ pc = "Copies"
    /\ copy_in.kind = "resize"
    /\ copy_out' = [graphics |-> graphics_update_dimensions(copy_in),
                    renderer |-> renderer_update_dimensions(copy_in),
                    main |-> main_resized(copy_in)]
    /\ pc' = "Compared"
    /\ UNCHANGED copies_unchanged

\* Each copy is torn down.
CopiesDrop ==
    /\ pc = "Copies"
    /\ copy_in.kind = "teardown"
    /\ copy_out' = [graphics |-> graphics_drop,
                    renderer |-> renderer_drop,
                    main |-> main_drop]
    /\ pc' = "Compared"
    /\ UNCHANGED copies_unchanged

copies ==
    \/ CopiesRender
    \/ CopiesResize
    \/ CopiesDrop

SpecCopies == InitCopies /\ [][copies]_vars

\* -------------------------------------------------- the wgpu RenderState

\* window.inner_size() and the sizes a resize may bring, zero included.
PhysicalSizes == Extent2D

\* wgpu::SwapChainError
SwapChainErrors == {"Timeout", "Outdated", "Lost", "OutOfMemory"}

\* device.create_swap_chain(&surface, &sc_desc): the swap chain made from the
\* descriptor, told apart from every earlier one by its serial.
create_swap_chain(desc, serial) ==
    [serial |-> serial, width |-> desc.width, height |-> desc.height]

\* The calls of render() after the frame was obtained.
EncodeCalls ==
    <<<<"create_command_encoder", "ok">>, <<"begin_render_pass", "ok">>,
      <<"set_pipeline", "ok">>, <<"set_vertex_buffer", "ok">>,
      <<"set_index_buffer", "ok">>, <<"draw_indexed", "ok">>, <<"finish", "ok">>,
      <<"queue.submit", "ok">>, <<"return", "ok">>>>

\* RenderState::new has returned: size is the window's inner size, the
\* descriptor has its width and height, the swap chain was made from it.
InitRenderState ==
    /\ pc = "RenderStateIdle"
    /\ size \in PhysicalSizes
    /\ sc_desc = [width |-> size.width, height |-> size.height]
    /\ swap_chain = create_swap_chain(sc_desc, 1)
    /\ copy_in = "none"
    /\ copy_out = "none"
    /\ should_configure_swapchain = FALSE
    /\ surface_extent = NoExtent
    /\ pending_size = NoExtent
    /\ submission_complete_fence = FALSE
    /\ rendering_complete_semaphore = 0
    /\ command_buffer = "initial"
    /\ gpu_queue = <<>>
    /\ swapchain = NoSwapchain
    /\ surface_image = FALSE
    /\ framebuffer = FALSE
    /\ objects = [o \in ObjectNames |-> "none"]
    /\ ops = <<>>
    /\ prev_ops = <<>>
    /\ resized = FALSE
    /\ resized_between = FALSE
    /\ last_caps = NoCaps
    /\ teardown = <<>>
    /\ viewport = NoViewport
    /\ soft_failures = 0
    /\ queue_families = <<>>
    /\ supported_formats = [some |-> FALSE, formats |-> <<>>]
    /\ queue_family = 0
    /\ color_format = "none"

\* What a step of the RenderState leaves alone.
render_state_unchanged ==
    <<copies_vars, renderer_vars, gpu_vars, surface_vars, framebuffer, objects,
      log_vars, local_vars, frame_vars, construction_vars>>

\* Mutant: resize stores the size and leaves the swap chain as it is.
resizeKeepsSwapChain ==
    /\ pc = "RenderStateIdle"
    /\ swap_chain.serial <= MaxResizes
    /\ \E new_size \in PhysicalSizes :
          /\ size' = new_size
          /\ sc_desc' = [sc_desc EXCEPT !.width = new_size.width,
                                        !.height = new_size.height]
          /\ swap_chain' = [swap_chain EXCEPT !.serial = @ + 1]
          /\ ops' = <<<<"create_swap_chain", "ok">>>>
          /\ pc' = "RenderStateIdle"
    /\ UNCHANGED render_state_unchanged

\* RenderState::resize(new_size). Whether create_swap_chain accepts a
\* descriptor with a zero width or height is the backend's matter: it may
\* panic, and then resize does not return.
resize ==
    /\ pc = "RenderStateIdle"
    /\ swap_chain.serial <= MaxResizes
    /\ \E new_size \in PhysicalSizes, created \in {"ok", "panic"} :
          /\ created = "panic" => (new_size.width = 0 \/ new_size.height = 0)
          /\ size' = new_size
          /\ sc_desc' = [sc_desc EXCEPT !.width = new_size.width,
                                        !.height = new_size.height]
          /\ ops' = <<<<"create_swap_chain", created>>>>
          /\ IF created = "ok"
             THEN /\ swap_chain' = create_swap_chain(sc_desc', swap_chain.serial + 1)
                  /\ pc' = "RenderStateIdle"
             ELSE /\ pc' = "Aborted"
                  /\ UNCHANGED swap_chain
    /\ UNCHANGED render_state_unchanged

\* render(): `self.swap_chain.get_current_frame()?`, an Err is returned at once.
render_get_current_frame ==
    /\ pc = "RenderStateIdle"
    /\ \E frame \in {"ok"} \cup SwapChainErrors :
          IF frame = "ok"
          THEN /\ ops' = <<<<"get_current_frame", frame>>>>
               /\ pc' = "RenderStateEncode"
          ELSE /\ ops' = <<<<"get_current_frame", frame>>, <<"return", frame>>>>
               /\ pc' = "RenderStateIdle"
    /\ UNCHANGED <<render_state_vars, render_state_unchanged>>

\* render(): the encoder, the render pass, queue.submit, Ok(()).
render_submit ==
    /\ pc = "RenderStateEncode"
    /\ ops' = ops \o EncodeCalls
    /\ pc' = "RenderStateIdle"
    /\ UNCHANGED <<render_state_vars, render_state_unchanged>>

render_state ==
    \/ resize
    \/ render_get_current_frame
    \/ render_submit

SpecRenderState == InitRenderState /\ [][render_state]_vars

\* ------------------------------------------------------------------ claims

\* The calls of one frame, in source order; the configure call is made or not.
FrameOps(configured) ==
    <<"wait_for_fence", "reset_fence", "command_pool_reset", "capabilities">>
    \o (IF configured THEN <<"configure_swapchain">> ELSE <<>>)
    \o <<"acquire_image", "create_framebuffer", "record", "submit", "present",
         "destroy_framebuffer">>

\* The calls of a frame abandoned at image acquire.
AbandonedOps(configured) ==
    <<"wait_for_fence", "reset_fence", "command_pool_reset", "capabilities">>
    \o (IF configured THEN <<"configure_swapchain">> ELSE <<>>)
    \o <<"acquire_image">>

\* render() is not running: it has returned (and the renderer may have been dropped).
AtRest == pc \in {"Idle", "Dropped"}

Returned == AtRest /\ ops # <<>>

Configured(log) == Has(log, "configure_swapchain")

\* C1: the calls of every render() are a prefix of the fixed order fence wait,
\* fence reset, pool reset, capability query, optional configure, acquire,
\* framebuffer creation, recording, submit, present, framebuffer destroy; a
\* call that has returned either made all of them with a successful acquire,
\* or stopped at a failed acquire.
C1_StepOrder ==
    /\ IsPrefix(Names(ops), FrameOps(Configured(ops)))
    /\ Returned =>
          \/ /\ Names(ops) = FrameOps(Configured(ops))
             /\ Result(ops, "acquire_image") = "ok"
          \/ /\ Names(ops) = AbandonedOps(Configured(ops))
             /\ Result(ops, "acquire_image") = "error"

C1_Witness ==
    /\ Returned
    /\ Names(ops) = FrameOps(TRUE)
    /\ Names(prev_ops) = AbandonedOps(FALSE)

\* C2 (as claimed): between the command-pool reset and the submit of a frame
\* no earlier batch is unretired on the GPU, so the command buffer is never
\* reset or re-recorded while pending.
C2_OneFrameInFlight ==
    pc \in {"SwapchainCheck", "ImageAcquire", "CreateFramebuffer", "Recording", "Submit"}
        => gpu_queue = <<>>

C4_AcquireFailureAbandons ==
    /\ Result(ops, "acquire_image") = "error" =>
          /\ AtRest
          /\ should_configure_swapchain
          /\ ops[Len(ops)] = <<"acquire_image", "error">>
          /\ ~framebuffer
          /\ ~surface_image
          /\ rendering_complete_semaphore = 0
          /\ \A i \in DOMAIN gpu_queue : gpu_queue[i].orphan
          /\ \A n \in {"create_framebuffer", "record", "submit", "present"} :
                ~Has(ops, n)
    /\ ((AtRest \/ pc \in {"Aborted", "Unwound"}) /\ ops # <<>>) =>
          \/ Names(ops) = FrameOps(Configured(ops))
          \/ ~Has(ops, "submit")
    /\ Returned =>
          \/ Names(ops) = FrameOps(Configured(ops))
          \/ ops[Len(ops)] = <<"acquire_image", "error">>

C4_Witness ==
    /\ AtRest
    /\ Result(ops, "acquire_image") = "error"
    /\ gpu_queue # <<>>

\* C5 (as claimed): when render() starts its fence wait, the fence is signaled
\* or a submitted batch that will signal it is unretired.
C5_FenceReadyAtEntry ==
    pc = "FenceWait" =>
        \/ submission_complete_fence
        \/ \E i \in DOMAIN gpu_queue : ~gpu_queue[i].orphan

C7_RecoverableNeverPropagates ==
    (Result(ops, "acquire_image") = "error" \/ Result(ops, "present") = "error") =>
        /\ pc # "Aborted"
        /\ should_configure_swapchain
        /\ pc = "DestroyFramebuffer" \/ AtRest
        /\ ~surface_image
        /\ AtRest => ~framebuffer

C7_Witness ==
    /\ Returned
    /\ Result(ops, "present") = "error"
    /\ Result(prev_ops, "acquire_image") = "error"

RenderObjects == {"pipeline", "render_pass", "pipeline_layout", "command_pool"}

\* C8: the render() in which acquire fails leaves pipeline, render pass,
\* pipeline layout and command pool as they were and leaves the flag set; the
\* render() after it calls configure_swapchain exactly once.
C8_RecoveryAfterAcquireFailure ==
    /\ (Result(ops, "acquire_image") = "error" /\ pc = "Idle") =>
          /\ \A o \in RenderObjects : objects[o] = "live"
          /\ should_configure_swapchain
    /\ (Result(prev_ops, "acquire_image") = "error" /\ Has(ops, "capabilities")) =>
          Count(ops, "configure_swapchain") = 1

C8_Witness ==
    /\ Returned
    /\ Result(prev_ops, "acquire_image") = "error"
    /\ ~resized_between
    /\ Names(ops) = FrameOps(TRUE)

\* C9 (as claimed): two render() calls in succession with no update_dimensions
\* between them call configure_swapchain at most once in total.
C9_TwoRendersOneConfigure ==
    (prev_ops # <<>> /\ ~resized_between) =>
        Count(prev_ops, "configure_swapchain") + Count(ops, "configure_swapchain") <= 1

PresentedOk(log) ==
    /\ Result(log, "acquire_image") = "ok"
    /\ Result(log, "present") \in {"ok", "suboptimal"}

\* C9 (amended): two render() calls in succession with no update_dimensions
\* between them, the first of which acquired and presented without error, call
\* configure_swapchain at most once in total, and the second does not call it.
C9_TwoCleanRendersOneConfigure ==
    (prev_ops # <<>> /\ ~resized_between /\ PresentedOk(prev_ops)) =>
        /\ Count(prev_ops, "configure_swapchain") + Count(ops, "configure_swapchain") <= 1
        /\ ~Configured(ops)
        /\ pc \in {"FenceWait", "SwapchainCheck"} => ~should_configure_swapchain

C9_Witness ==
    /\ Returned
    /\ ~resized_between
    /\ Names(prev_ops) = FrameOps(TRUE)
    /\ PresentedOk(prev_ops)
    /\ Names(ops) = FrameOps(FALSE)

\* C10: the swapchain check calls configure_swapchain exactly when
\* should_configure_swapchain is true on entry, and with the flag clear it
\* leaves the surface's configuration as it was.
C10_ConfigureIffFlag ==
    [][(pc = "SwapchainCheck" /\ pc' # pc) =>
          /\ Configured(ops') <=> should_configure_swapchain
          /\ ~should_configure_swapchain => swapchain' = swapchain
          /\ (should_configure_swapchain /\ pc' = "ImageAcquire") =>
                swapchain'.extent = surface_extent']_vars

C10_Witness ==
    /\ pc = "ImageAcquire"
    /\ ~Configured(ops)
    /\ swapchain # NoSwapchain
    /\ swapchain.extent # surface_extent

\* C11: update_dimensions(width, height) stores exactly (width, height) as the
\* surface extent to use and raises should_configure_swapchain; it calls
\* nothing on the device, the queue, the fence, the semaphore, the command pool
\* or the surface, whose configured swapchain stays as it is.
C11_UpdateDimensionsOnlyRecords ==
    [][(/\ pc = "Idle"
        /\ pc' = "Idle"
        /\ <<renderer_vars, pending_size, resized>>' # <<renderer_vars, pending_size, resized>>) =>
          /\ pending_size' \in WindowSizes
          /\ surface_extent' = pending_size'
          /\ should_configure_swapchain'
          /\ UNCHANGED <<gpu_vars, surface_vars, framebuffer, objects, ops, teardown>>]_vars

C11_Witness ==
    /\ pc = "Idle"
    /\ resized
    /\ should_configure_swapchain
    /\ surface_extent = pending_size
    /\ swapchain # NoSwapchain
    /\ swapchain.extent # surface_extent

\* The value nearest to v in lo..hi.
Nearest(v, lo, hi) == CHOOSE r \in lo..hi : \A q \in lo..hi : (r - v) * (r - v) <= (q - v) * (q - v)

InRange(caps, requested) ==
    [width  |-> Nearest(requested.width, caps.min_extent.width, caps.max_extent.width),
     height |-> Nearest(requested.height, caps.min_extent.height, caps.max_extent.height)]

FirstCheckAfterResize ==
    /\ pc = "SwapchainCheck"
    /\ pc' = "ImageAcquire"
    /\ prev_ops = <<>>
    /\ resized_between

\* C12 (as written): the first render() after update_dimensions(w, h) calls
\* configure_swapchain exactly once, with (w, h) clamped into the extent range
\* the surface supports.
C12_FirstConfigureClampsRequest ==
    [][FirstCheckAfterResize =>
          /\ Count(ops', "configure_swapchain") = 1
          /\ swapchain'.extent = InRange(last_caps', pending_size)]_vars

\* C12 (amended): the first render() after update_dimensions(w, h) calls
\* configure_swapchain exactly once; its extent is the surface's current extent
\* when the surface reports one, and otherwise (w, h) of the last
\* update_dimensions clamped into the extent range the surface supports.
C12_FirstConfigureUsesCurrentOrClamped ==
    [][FirstCheckAfterResize =>
          /\ Count(ops', "configure_swapchain") = 1
          /\ swapchain'.extent =
                IF last_caps'.current_extent # NoExtent
                THEN last_caps'.current_extent
                ELSE InRange(last_caps', pending_size)]_vars

C12_Witness ==
    /\ pc = "ImageAcquire"
    /\ prev_ops = <<>>
    /\ resized_between
    /\ Configured(ops)
    /\ last_caps.current_extent = NoExtent
    /\ last_caps.max_extent.width < MaxDim
    /\ swapchain.extent = last_caps.max_extent

\* C13: a render() that returns after acquire and present both succeeded has
\* should_configure_swapchain false and has presented exactly one image; this
\* covers the first render() after construction, which configures.
C13_CleanFrameClearsFlag ==
    (Returned /\ ~resized /\ PresentedOk(ops)) =>
        /\ ~should_configure_swapchain
        /\ Count(ops, "present") = 1
        /\ ~surface_image

C13_Witness ==
    /\ Returned
    /\ ~resized
    /\ prev_ops = <<>>
    /\ Configured(ops)
    /\ PresentedOk(ops)
    /\ ~should_configure_swapchain

\* C14: should_configure_swapchain goes from true to false only in the
\* swapchain check, right after a configure_swapchain that succeeded with the
\* pending extent; a configure_swapchain that fails leaves the flag set.
C14_FlagClearedOnlyBySuccess ==
    [][/\ (should_configure_swapchain /\ ~should_configure_swapchain') =>
             /\ pc = "SwapchainCheck"
             /\ pc' = "ImageAcquire"
             /\ ops'[Len(ops')] = <<"configure_swapchain", "ok">>
             /\ swapchain' # NoSwapchain
             /\ swapchain'.extent = surface_extent'
       /\ Result(ops', "configure_swapchain") = "error" => should_configure_swapchain']_vars

C14_Witness ==
    /\ pc = "Aborted"
    /\ Result(ops, "configure_swapchain") = "error"
    /\ should_configure_swapchain
    /\ prev_ops # <<>>

Position(log, name) == CHOOSE i \in DOMAIN log : log[i] = name

\* C15: teardown destroys, in this order, the semaphore, the fence, the
\* pipelines, the pipeline layouts, the render passes and the command pool,
\* then unconfigures the swapchain, destroys the surface and last the instance;
\* the order does not depend on the frames rendered before.
C15_TeardownOrder ==
    /\ pc \in {"Dropped", "Unwound"} =>
          /\ teardown = <<"rendering_complete_semaphore", "submission_complete_fence",
                          "pipeline", "pipeline_layout", "render_pass", "command_pool",
                          "unconfigure_swapchain", "surface", "instance">>
          /\ Position(teardown, "surface") < Position(teardown, "instance")
    /\ pc \notin {"Dropped", "Unwound"} => teardown = <<>>

C15_Witness ==
    /\ pc = "Dropped"
    /\ teardown # <<>>
    /\ Result(ops, "acquire_image") = "error"
    /\ Names(prev_ops) = FrameOps(TRUE)

\* C16: at shutdown every owned GPU object is destroyed exactly once and none
\* is left; while render() runs every one of them is still alive.
C16_DestroyedExactlyOnce ==
    /\ pc \in {"Dropped", "Unwound"} =>
          \A o \in ObjectNames :
              /\ Cardinality({i \in DOMAIN teardown : teardown[i] = o}) = 1
              /\ objects[o] = "destroyed"
    /\ pc \notin {"Dropped", "Unwound"} =>
          \A o \in ObjectNames : objects[o] = "live"

C16_Witness ==
    /\ pc = "Dropped"
    /\ Names(ops) = FrameOps(FALSE)
    /\ \A o \in ObjectNames : objects[o] = "destroyed"

\* C17: when a fatal condition aborts render() no framebuffer exists, and once
\* the panic has unwound the teardown has run exactly once and neither a
\* framebuffer nor an acquired image is left.
C17_AbortLeavesNothing ==
    /\ pc = "Aborted" =>
          /\ ~framebuffer
          /\ teardown = <<>>
          /\ \/ WaitPanics(Result(ops, "wait_for_fence"))
             \/ Result(ops, "reset_fence") = "error"
             \/ Result(ops, "configure_swapchain") = "error"
             \/ Result(ops, "create_framebuffer") = "error"
    /\ pc = "Unwound" =>
          /\ ~framebuffer
          /\ ~surface_image
          /\ teardown = DropCalls

C17_Witness ==
    /\ pc = "Unwound"
    /\ Result(ops, "create_framebuffer") = "error"
    /\ Result(ops, "acquire_image") = "ok"
    /\ teardown # <<>>

\* C18: present comes right after this frame's submit and waits on the
\* rendering semaphore that this submit signals.
C18_PresentWaitsOnSubmit ==
    /\ rendering_complete_semaphore \in {0, 1}
    /\ pc = "Present" =>
          /\ ops[Len(ops)] = <<"submit", "ok">>
          /\ rendering_complete_semaphore = 1
    /\ Has(ops, "present") =>
          /\ Position(Names(ops), "submit") + 1 = Position(Names(ops), "present")
          /\ rendering_complete_semaphore = 0

C18_Witness ==
    /\ pc = "DestroyFramebuffer"
    /\ Has(ops, "present")
    /\ rendering_complete_semaphore = 0
    /\ prev_ops # <<>>

\* C19: a framebuffer created in a render() is destroyed before that call
\* returns, none exists between calls, and a call creates at most one.
C19_FramebufferTransient ==
    /\ AtRest => ~framebuffer
    /\ pc \in {"FenceWait", "SwapchainCheck", "ImageAcquire", "CreateFramebuffer"} =>
          ~framebuffer
    /\ Count(ops, "create_framebuffer") <= 1
    /\ (Returned /\ Result(ops, "create_framebuffer") = "ok") =>
          Count(ops, "destroy_framebuffer") = 1
    /\ Has(ops, "destroy_framebuffer") => Result(ops, "create_framebuffer") = "ok"

C19_Witness ==
    /\ Returned
    /\ Result(ops, "present") = "error"
    /\ Count(ops, "destroy_framebuffer") = 1
    /\ ~framebuffer

Fatal ==
    \/ WaitPanics(Result(ops, "wait_for_fence"))
    \/ Result(ops, "reset_fence") = "error"
    \/ Result(ops, "configure_swapchain") = "error"
    \/ Result(ops, "create_framebuffer") = "error"

InRender ==
    pc \in {"FenceWait", "SwapchainCheck", "ImageAcquire", "CreateFramebuffer",
            "Recording", "Submit", "Present", "DestroyFramebuffer"}

\* C21: however many render() calls in a row failed at acquire or present,
\* each of them returned with the flag set, the call after them goes through
\* the steps of a full frame, configuration included, and it aborts only on
\* an error a call reports, never because of the failures before it.
C21_SoftFailuresNeverEscalate ==
    /\ (soft_failures > 0 /\ pc = "Idle") =>
          /\ should_configure_swapchain
          /\ Result(ops, "acquire_image") = "error" \/ Result(ops, "present") = "error"
    /\ (soft_failures > 0 /\ InRender) => IsPrefix(Names(ops), FrameOps(TRUE))
    /\ (soft_failures > 0 /\ pc \in {"Aborted", "Unwound"}) =>
          /\ Fatal
          /\ Result(ops, "wait_for_fence") = "timeout" => Has(ops, "reset_fence")

C21_Witness ==
    /\ soft_failures = MaxSoftFailures
    /\ pc = "DestroyFramebuffer"
    /\ PresentedOk(ops)
    /\ Result(prev_ops, "acquire_image") = "error"

SyncCalls == {"create_fence", "destroy_fence", "create_semaphore", "destroy_semaphore"}

Calls(log) == {log[i][1] : i \in DOMAIN log}

\* C22: the fence and the semaphore made by new() are the ones every render()
\* uses: no step of render() or update_dimensions creates or destroys a fence
\* or a semaphore, and both are alive until drop().
C22_OneSyncPair ==
    /\ Calls(ops) \cap SyncCalls = {}
    /\ Calls(prev_ops) \cap SyncCalls = {}
    /\ pc \notin {"Dropped", "Unwound"} =>
          /\ objects["submission_complete_fence"] = "live"
          /\ objects["rendering_complete_semaphore"] = "live"
    /\ Cardinality({i \in DOMAIN teardown : teardown[i] = "submission_complete_fence"}) <= 1
    /\ Cardinality({i \in DOMAIN teardown : teardown[i] = "rendering_complete_semaphore"}) <= 1

C22_Witness ==
    /\ Returned
    /\ pc = "Idle"
    /\ Configured(ops)
    /\ Configured(prev_ops)
    /\ Has(ops, "submit")
    /\ Has(prev_ops, "submit")
    /\ objects["submission_complete_fence"] = "live"

\* C23 (as written): a render() that finds the flag set at the swapchain check
\* recreates the fence, the semaphore and the swapchain images.
C23_ConfigureRecreatesSyncPair ==
    Result(ops, "configure_swapchain") = "ok" =>
        /\ Has(ops, "create_fence")
        /\ Has(ops, "create_semaphore")

\* C23 (amended): a render() that finds the flag set at the swapchain check
\* calls configure_swapchain, which on success replaces the swapchain images
\* with those of the new configuration; the fence and the semaphore are not
\* recreated and their state is not touched by the check.
C23_ConfigureRecreatesImagesOnly ==
    [][(pc = "SwapchainCheck" /\ pc' # pc /\ should_configure_swapchain) =>
          /\ Count(ops', "configure_swapchain") = 1
          /\ pc' = "ImageAcquire" =>
                /\ swapchain' # NoSwapchain
                /\ swapchain'.extent = surface_extent'
                /\ swapchain'.image_count \in
                      last_caps'.image_count[1]..last_caps'.image_count[2]
          /\ Calls(ops') \cap SyncCalls = {}
          /\ UNCHANGED <<gpu_vars, objects>>]_vars

C23_Witness ==
    /\ pc = "ImageAcquire"
    /\ Configured(ops)
    /\ Configured(prev_ops)
    /\ swapchain.extent # [width |-> 1, height |-> 1]
    /\ resized_between

PipelineCalls ==
    {"create_render_pass", "destroy_render_pass", "create_pipeline_layout",
     "destroy_pipeline_layout", "create_graphics_pipeline", "destroy_graphics_pipeline"}

\* C24: no step of render() or update_dimensions creates or destroys a render
\* pass, a pipeline layout or a graphics pipeline, whatever the frames did
\* (failed acquire, failed present, reconfiguration); the three made by new()
\* are alive until drop().
C24_PipelineImmutable ==
    /\ Calls(ops) \cap PipelineCalls = {}
    /\ Calls(prev_ops) \cap PipelineCalls = {}
    /\ pc \notin {"Dropped", "Unwound"} =>
          \A o \in {"render_pass", "pipeline_layout", "pipeline"} : objects[o] = "live"

C24_Witness ==
    /\ Returned
    /\ pc = "Idle"
    /\ Result(prev_ops, "acquire_image") = "error"
    /\ Configured(ops)
    /\ Result(ops, "present") = "error"
    /\ objects["pipeline"] = "live"

C26_ImageCountInRange ==
    [][(pc = "SwapchainCheck" /\ pc' = "ImageAcquire" /\ should_configure_swapchain) =>
          LET lo == last_caps'.image_count[1]
              hi == last_caps'.image_count[2]
          IN  /\ swapchain'.image_count \in lo..hi
              /\ 3 \in lo..hi => swapchain'.image_count = 3
              /\ 3 \notin lo..hi => swapchain'.image_count = lo]_vars

C26_Witness ==
    /\ pc = "ImageAcquire"
    /\ Configured(ops)
    /\ last_caps.image_count = <<4, 5>>
    /\ swapchain.image_count = 4

Listed == IF supported_formats.some THEN supported_formats.formats ELSE <<>>

SrgbFormats == {"Bgra8Srgb", "Rgba8Srgb"}

\* C27: the color format new() chooses is the first SRGB format of the list
\* the surface reports; with no SRGB format in it, the first format of the
\* list; with an empty list or none reported, Rgba8Srgb.
C27_ColorFormatSelection ==
    color_format # "none" =>
        /\ (\E i \in DOMAIN Listed : Listed[i] \in SrgbFormats) =>
              \E i \in DOMAIN Listed :
                  /\ color_format = Listed[i]
                  /\ Listed[i] \in SrgbFormats
                  /\ \A j \in 1..(i - 1) : Listed[j] \notin SrgbFormats
        /\ ((\A i \in DOMAIN Listed : Listed[i] \notin SrgbFormats) /\ Listed # <<>>) =>
              color_format = Listed[1]
        /\ Listed = <<>> => color_format = "Rgba8Srgb"

C27_Witness ==
    /\ pc = "Idle"
    /\ supported_formats = [some |-> TRUE, formats |-> <<"Bgra8Unorm", "Bgra8Srgb">>]
    /\ color_format = "Bgra8Srgb"

Both(family) == family.present /\ family.graphics

BeforeDevice == pc \in {"NewBackend", "NewSurface", "NewDevice"}

\* C28: new() opens the device on the first queue family, in adapter order,
\* that supports both presentation to the surface and graphics; with no such
\* family it panics before opening a device and returns no Renderer.
C28_QueueFamilySelection ==
    /\ queue_family # 0 =>
          /\ queue_family \in DOMAIN queue_families
          /\ Both(queue_families[queue_family])
          /\ \A j \in 1..(queue_family - 1) : ~Both(queue_families[j])
    /\ Has(ops, "open") => queue_family # 0
    /\ (\A i \in DOMAIN queue_families : ~Both(queue_families[i])) =>
          /\ BeforeDevice \/ pc \in {"Aborted", "Unwound"}
          /\ ~Has(ops, "open")
    /\ (pc \in {"Aborted", "Unwound"} /\ Has(ops, "find_queue_family")) =>
          \A i \in DOMAIN queue_families : ~Both(queue_families[i])

C28_Witness ==
    /\ pc = "Aborted"
    /\ queue_families = <<[present |-> TRUE, graphics |-> FALSE],
                          [present |-> FALSE, graphics |-> TRUE]>>
    /\ Has(ops, "find_queue_family")
    /\ ~Has(ops, "open")

\* C29: the rectangle recorded as viewport and scissor has origin (0, 0) and
\* the width and height of surface_extent, for every extent.
C29_ViewportCoversExtent ==
    viewport # NoViewport =>
        viewport = [x |-> 0, y |-> 0, w |-> surface_extent.width,
                    h |-> surface_extent.height]

\* C30: acquire_image is only called with the flag false on a surface whose
\* swapchain has been configured; the first render() configures before it
\* acquires.
C30_AcquireOnlyWhenConfigured ==
    /\ pc = "ImageAcquire" =>
          /\ ~should_configure_swapchain
          /\ swapchain # NoSwapchain
    /\ (Has(ops, "acquire_image") /\ pc \notin {"Dropped", "Unwound"}) =>
          swapchain # NoSwapchain
    /\ (Has(ops, "acquire_image") /\ prev_ops = <<>>) =>
          /\ Result(ops, "configure_swapchain") = "ok"
          /\ Position(Names(ops), "configure_swapchain") < Position(Names(ops), "acquire_image")

C30_Witness ==
    /\ pc = "ImageAcquire"
    /\ Result(prev_ops, "present") = "error"
    /\ resized_between
    /\ Configured(ops)
    /\ ~should_configure_swapchain

\* C31: when a frame creates its framebuffer, surface_extent is the extent of
\* the configuration most recently applied with configure_swapchain, also in a
\* frame that entered with the flag clear and read capabilities that differ
\* from those of the last configuration.
C31_ExtentIsConfiguredExtent ==
    pc = "CreateFramebuffer" => surface_extent = swapchain.extent

\* C32: the transient framebuffer is destroyed only after the GPU work
\* submitted in that frame has retired.
C32_FramebufferOutlivesSubmission ==
    [][(pc = "DestroyFramebuffer" /\ pc' # pc) => gpu_queue = <<>>]_vars

\* C33: teardown destroys the semaphore, the fence, the pipeline and the
\* command pool only when no submitted frame is still in flight.
C33_TeardownAfterRetire ==
    [][(pc = "Idle" /\ pc' = "Dropped") => gpu_queue = <<>>]_vars

\* C34: the rendering semaphore stays balanced: a render() signals it by one
\* submit and waits on it by one present, or does neither; it is never
\* signaled while a signal is pending and never waited on without one.
C34_SemaphoreBalanced ==
    [][/\ rendering_complete_semaphore' > rendering_complete_semaphore =>
             /\ rendering_complete_semaphore = 0
             /\ rendering_complete_semaphore' = 1
       /\ rendering_complete_semaphore' < rendering_complete_semaphore =>
             /\ rendering_complete_semaphore = 1
             /\ rendering_complete_semaphore' = 0
       /\ Count(ops', "submit") > Count(ops, "submit") =>
             rendering_complete_semaphore' = rendering_complete_semaphore + 1
       /\ Count(ops', "present") > Count(ops, "present") =>
             rendering_complete_semaphore' = rendering_complete_semaphore - 1
       /\ (InRender /\ pc' = "Idle") =>
             /\ Count(ops', "submit") = Count(ops', "present")
             /\ Count(ops', "submit") <= 1
             /\ rendering_complete_semaphore' = 0]_vars

C34_Witness ==
    /\ pc = "Idle"
    /\ Count(ops, "submit") = 1
    /\ Count(ops, "present") = 1
    /\ Result(prev_ops, "acquire_image") = "error"
    /\ rendering_complete_semaphore = 0

\* C35: the fence is created signaled, so the first render() finds it signaled
\* at its fence wait and passes the wait without running into the timeout.
C35_FirstWaitDoesNotBlock ==
    /\ (prev_ops = <<>> /\ pc \in {"Idle", "FenceWait"} /\ ~Has(ops, "wait_for_fence")) =>
          submission_complete_fence
    /\ (prev_ops = <<>> /\ Has(ops, "wait_for_fence")) =>
          Result(ops, "wait_for_fence") # "timeout"

C35_Witness ==
    /\ prev_ops = <<>>
    /\ pc = "SwapchainCheck"
    /\ Result(ops, "wait_for_fence") = "signaled"
    /\ ~submission_complete_fence

\* A render() whose configure (if any), acquire and present all succeeded.
CleanFrame(log) ==
    /\ Configured(log) => Result(log, "configure_swapchain") = "ok"
    /\ PresentedOk(log)

\* C36: with no update_dimensions and with configure, acquire and present
\* succeeding, one render() is enough to clear the flag; from then on the flag
\* stays clear through every further such render(), none of them calls
\* configure_swapchain, and each of them presents exactly one image.
C36_ConvergesAfterOneRender ==
    /\ (pc = "Idle" /\ ~resized /\ CleanFrame(ops)) => ~should_configure_swapchain
    /\ (prev_ops # <<>> /\ ~resized_between /\ CleanFrame(prev_ops)) =>
          /\ ~Configured(ops)
          /\ (/\ InRender
              /\ Result(ops, "acquire_image") # "error"
              /\ Result(ops, "present") # "error") => ~should_configure_swapchain
          /\ (pc = "Idle" /\ CleanFrame(ops)) =>
                /\ Names(ops) = FrameOps(FALSE)
                /\ Count(ops, "present") = 1
                /\ Count(ops, "acquire_image") = 1

C36_Witness ==
    /\ pc = "Idle"
    /\ ~resized
    /\ ~resized_between
    /\ Configured(prev_ops)
    /\ Result(prev_ops, "present") = "suboptimal"
    /\ Result(ops, "present") = "ok"
    /\ ~should_configure_swapchain

\* C37: when construction aborts after some GPU objects were created, every
\* object created so far has been destroyed, in teardown order, by the time
\* the process ends.
C37_AbortedConstructionCleansUp ==
    pc = "Unwound" => \A o \in ObjectNames \ {"instance"} : objects[o] # "live"

\* C38: given the same flag, extent and call outcomes, the frame loops of
\* src/graphics/renderer.rs, src/renderer.rs and src/main.rs make the same
\* calls in the same order and leave the same flag and extent; their resize
\* handling and their teardown sequences coincide as well.
C38_CopiesEquivalent ==
    pc = "Compared" =>
        /\ copy_out.graphics = copy_out.renderer
        /\ copy_out.renderer = copy_out.main

C38_Witness ==
    /\ pc = "Compared"
    /\ copy_in.kind = "frame"
    /\ copy_in.flag
    /\ copy_in.present = "error"
    /\ copy_out.main.end = "return"
    /\ Len(copy_out.main.ops) = 11
    /\ copy_out.graphics.flag

\* size is the descriptor's width and height and the swap chain is the one
\* made from the descriptor.
RenderStateConsistent ==
    /\ size = [width |-> sc_desc.width, height |-> sc_desc.height]
    /\ swap_chain = create_swap_chain(sc_desc, swap_chain.serial)

\* C39: in the wgpu RenderState the stored size is the descriptor's width and
\* height and the current swap chain is the one made from the descriptor;
\* resize recreates the swap chain at once, render changes none of the three,
\* and a swap-chain error in render is returned before anything is encoded or
\* submitted.
C39_RenderStateInvariant ==
    /\ [](/\ pc \in {"RenderStateIdle", "RenderStateEncode"} => RenderStateConsistent
          /\ (Has(ops, "get_current_frame")
                 /\ Result(ops, "get_current_frame") # "ok") =>
                /\ Names(ops) = <<"get_current_frame", "return">>
                /\ Result(ops, "return") = Result(ops, "get_current_frame")
          /\ Has(ops, "queue.submit") =>
                /\ Result(ops, "get_current_frame") = "ok"
                /\ Result(ops, "return") = "ok")
    /\ [][/\ (Has(ops', "create_swap_chain") /\ pc' # "Aborted") =>
                /\ swap_chain'.serial = swap_chain.serial + 1
                /\ swap_chain' = create_swap_chain(sc_desc', swap_chain'.serial)
                /\ size' = [width |-> sc_desc'.width, height |-> sc_desc'.height]
          /\ Has(ops', "get_current_frame") =>
                UNCHANGED <<size, sc_desc, swap_chain>>]_vars

C39_Witness ==
    /\ pc = "RenderStateIdle"
    /\ swap_chain.serial = 3
    /\ size = [width |-> 1, height |-> 2]
    /\ Result(ops, "get_current_frame") = "Outdated"
    /\ RenderStateConsistent

====
